---- MODULE Spec2Model ----
(***************************************************************************)
(* Model of src/index.js: the date/time resolution of the fitness-club     *)
(* bot (normalizeWhenLocalPair and the time-zone helpers), the late-night  *)
(* clarification policy, and the booking tools over the two-backend        *)
(* ledger (Google Sheets first, local file as fallback).                   *)
(*                                                                         *)
(* Strings are sequences of UTF-16 code units (naturals), as JavaScript    *)
(* strings are; instants are seconds since the epoch.                      *)
(***************************************************************************)
EXTENDS Integers, Sequences, FiniteSets, TLC

VARIABLES
  zone,     \* TIME_ZONE: the configured zone (index.js:36)
  host,     \* the process's own time zone offset in minutes (Date#getDay, new Date(local string))
  now,      \* the wall clock read by new Date()
  sheet,    \* rows of the Google Sheets backend
  file,     \* records of bookings.json
  last,     \* the latest call and what it returned
  calls,    \* the number of tool calls made so far
  mem       \* per overlapping tool execution: its arguments and the list it holds in memory

vars == <<zone, host, now, sheet, file, last, calls, mem>>

----------------------------------------------------------------------------
(* Characters and strings *)

\* ECMAScript IsWordChar: \w is exactly [A-Za-z0-9_] (no regexp in index.js has
\* the u or i flag), so every Cyrillic letter is a non-word character.
IsWordChar(c) == c \in (48..57) \cup (65..90) \cup {95} \cup (97..122)

\* \d
IsDigit(c) == c \in 48..57

\* \s (WhiteSpace and LineTerminator), also the set String#trim removes
IsSpace(c) ==
  c \in {9, 10, 11, 12, 13, 32, 160, 5760, 8232, 8233, 8239, 8287, 12288, 65279}
        \cup (8192..8202)

DigitVal(c) == c - 48

\* String#toLowerCase on the Latin and Cyrillic letters
ToLowerChar(c) ==
  IF c \in 65..90 THEN c + 32
  ELSE IF c \in 1040..1071 THEN c + 32
  ELSE IF c \in 1024..1039 THEN c + 80
  ELSE c

toLowerCase(s) == [i \in 1..Len(s) |-> ToLowerChar(s[i])]

\* String#trim
trim(s) ==
  LET keep == {i \in 1..Len(s) : ~IsSpace(s[i])}
  IN IF keep = {} THEN <<>>
     ELSE LET lo == CHOOSE i \in keep : \A j \in keep : i <= j
              hi == CHOOSE i \in keep : \A j \in keep : j <= i
          IN SubSeq(s, lo, hi)

\* the literal lit occurs in s starting at position p
LitAt(s, p, lit) ==
  /\ p >= 1
  /\ p + Len(lit) - 1 <= Len(s)
  /\ \A i \in 1..Len(lit) : s[p + i - 1] = lit[i]

\* String#includes / an unanchored literal regexp
Contains(s, lit) == \E p \in 1..(Len(s) + 1) : LitAt(s, p, lit)

\* k digits start at position p
DigitsAt(s, p, k) ==
  /\ p >= 1
  /\ p + k - 1 <= Len(s)
  /\ \A i \in p..(p + k - 1) : IsDigit(s[i])

\* \b holds between s[p-1] and s[p]: exactly one side is a word character
WordBoundary(s, p) ==
  LET before == p >= 2 /\ p - 1 <= Len(s) /\ IsWordChar(s[p - 1])
      after  == p >= 1 /\ p <= Len(s) /\ IsWordChar(s[p])
  IN before # after

\* the position after the run of \s characters that starts at p (\s* and \s+ are
\* greedy and every use is followed by a non-space, so the run is taken whole)
RECURSIVE SkipSpaces(_, _)
SkipSpaces(s, p) ==
  IF p <= Len(s) /\ IsSpace(s[p]) THEN SkipSpaces(s, p + 1) ELSE p

\* parseInt(digits, 10)
RECURSIVE parseInt(_)
parseInt(ds) ==
  IF ds = <<>> THEN 0
  ELSE 10 * parseInt(SubSeq(ds, 1, Len(ds) - 1)) + DigitVal(ds[Len(ds)])

Min(a, b) == IF a <= b THEN a ELSE b
Max(a, b) == IF a >= b THEN a ELSE b
Abs(a) == IF a < 0 THEN -a ELSE a

\* String(n).padStart(2, '0') for n >= 0
RECURSIVE NumToStr(_)
NumToStr(n) ==
  IF n < 10 THEN <<48 + n>> ELSE NumToStr(n \div 10) \o <<48 + (n % 10)>>

pad(n) == IF n < 10 THEN <<48, 48 + n>> ELSE NumToStr(n)

----------------------------------------------------------------------------
(* Calendar arithmetic of Date.UTC and of Intl.DateTimeFormat *)

\* days from 1970-01-01 to the first day of the month, for the year yy counted
\* from March and the month mp counted from March (0..11)
DaysFromMarch(yy, mp) ==
  LET era == yy \div 400
      yoe == yy - era * 400
      doy == (153 * mp + 2) \div 5
  IN era * 146097 + yoe * 365 + yoe \div 4 - yoe \div 100 + doy - 719468

\* days from 1970-01-01 to the first day of month m (1..12) of year y
DaysFromCivil(y, m) ==
  DaysFromMarch(IF m <= 2 THEN y - 1 ELSE y, IF m > 2 THEN m - 3 ELSE m + 9)

\* Date.UTC(year, month - 1, day, hour, minute, second) / 1000: a month outside
\* 1..12 carries into the year and a day outside the month carries into the
\* following months, as MakeDay does
DateUTC(year, month, day, hour, minute, second) ==
  (DaysFromCivil(year + ((month - 1) \div 12), ((month - 1) % 12) + 1) + day - 1) * 86400
  + hour * 3600 + minute * 60 + second

\* the civil date of day-of-year doy (from 1 March) of the year y0 counted from March
CivilOfDoy(y0, doy) ==
  LET mp == (5 * doy + 2) \div 153
      m  == IF mp < 10 THEN mp + 3 ELSE mp - 9
  IN [year |-> y0 + (IF m <= 2 THEN 1 ELSE 0), month |-> m,
      day |-> doy - (153 * mp + 2) \div 5 + 1]

CivilOfYoe(era, doe, yoe) ==
  CivilOfDoy(yoe + era * 400, doe - (365 * yoe + yoe \div 4 - yoe \div 100))

CivilOfEra(era, doe) ==
  CivilOfYoe(era, doe, (doe - doe \div 1460 + doe \div 36524 - doe \div 146096) \div 365)

\* the civil date of the day number days (days since 1970-01-01)
CivilFromDays(days) ==
  CivilOfEra((days + 719468) \div 146097, (days + 719468) % 146097)

WithClock(c, secs) ==
  [year |-> c.year, month |-> c.month, day |-> c.day,
   hour |-> secs \div 3600, minute |-> (secs % 3600) \div 60, second |-> secs % 60]

\* the civil date and time of the instant t read as UTC
CivilFromEpoch(t) == WithClock(CivilFromDays(t \div 86400), t % 86400)

\* day of the week of the instant t read as UTC: 0 is Sunday (1970-01-01 was a Thursday)
WeekDay(t) == ((t \div 86400) + 4) % 7

\* Date#getDay: the day of the week in the PROCESS's time zone, not in TIME_ZONE
getDay(t, hostOffsetMin) == WeekDay(t + hostOffsetMin * 60)

\* The zones a deployment may configure, with the offsets (minutes east of UTC)
\* the IANA database gives them over the modelled period (2025 and 2026 up to
\* the spring change): Asia/Omsk has no DST; Europe/Berlin is on summer time
\* from 2025-03-30T01:00Z to 2025-10-26T01:00Z.
Omsk   == [name |-> "Asia/Omsk", std |-> 360, dst |-> 360, dstFrom |-> 0, dstTo |-> 0]
Berlin == [name |-> "Europe/Berlin", std |-> 60, dst |-> 120,
           dstFrom |-> DateUTC(2025, 3, 30, 1, 0, 0), dstTo |-> DateUTC(2025, 10, 26, 1, 0, 0)]
Zones == {Omsk, Berlin}

\* the process's zone: UTC (a container's default) or the same +06:00 as Asia/Omsk
HostOffsets == {0, 360}

\* the offset Intl.DateTimeFormat applies at instant t, in minutes
TzOffsetAt(t, timeZone) ==
  IF timeZone.dstFrom <= t /\ t < timeZone.dstTo THEN timeZone.dst ELSE timeZone.std

\* getTzParts: the hour is 0..23 (hour12: false read as hourCycle h23)
getTzParts(date, timeZone) == CivilFromEpoch(date + TzOffsetAt(date, timeZone) * 60)

\* Math.round(x / 60) for an integer number of seconds x
RoundDiv60(x) == (2 * x + 60) \div 120

\* Date.UTC of the parts of a projection (index.js:90)
PartsAsUTC(p) == DateUTC(p.year, p.month, p.day, p.hour, p.minute, p.second)

getTzOffsetMinutes(date, timeZone) ==
  RoundDiv60(PartsAsUTC(getTzParts(date, timeZone)) - date)

\* one pass of the loop of zonedDateTimeToUTCISO: targetMs for the guess guessMs
RefineOffset(civil, guessMs, timeZone) ==
  civil - getTzOffsetMinutes(guessMs, timeZone) * 60

\* the second pass: skipped (break) when the first moved the guess by under a minute
SecondPass(civil, target1, timeZone) ==
  IF Abs(target1 - civil) < 60 THEN target1 ELSE RefineOffset(civil, target1, timeZone)

\* the loop of index.js:229-237 from the initial guess civil
RefineTwice(civil, timeZone) ==
  SecondPass(civil, RefineOffset(civil, civil, timeZone), timeZone)

\* a conversion that never subtracts the zone's offset: C8 tells it from the source's
CivilAsUTC(year, month, day, hour, minute, timeZone) ==
  DateUTC(year, month, day, hour, minute, 0)

\* zonedDateTimeToUTCISO: the instant of a civil time of the zone, by at most two
\* refinements of the offset. The ISO string it returns is always read back with
\* new Date(iso); the model keeps the instant in seconds.
zonedDateTimeToUTCISO(year, month, day, hour, minute, timeZone) ==
  RefineTwice(DateUTC(year, month, day, hour, minute, 0), timeZone)

\* YYYY-MM-DDTHH:MM:SS of civil parts
PlainOf(p) ==
  NumToStr(p.year) \o <<45>> \o pad(p.month) \o <<45>> \o pad(p.day) \o <<84>>
  \o pad(p.hour) \o <<58>> \o pad(p.minute) \o <<58>> \o pad(p.second)

\* Date#toISOString: YYYY-MM-DDTHH:MM:SS.000Z (years 1000..9999)
toISOString(t) == PlainOf(CivilFromEpoch(t)) \o <<46, 48, 48, 48, 90>>

\* addDaysLocalParts: days * 24 h after the instant of the civil time, the date
\* re-read in the zone, the hour and minute kept from parts
KeepClock(p, parts) ==
  [year |-> p.year, month |-> p.month, day |-> p.day,
   hour |-> parts.hour, minute |-> parts.minute]

addDaysLocalParts(parts, days, timeZone) ==
  KeepClock(getTzParts(zonedDateTimeToUTCISO(parts.year, parts.month, parts.day,
                                             parts.hour, parts.minute, timeZone)
                       + days * 24 * 60 * 60, timeZone),
            parts)

----------------------------------------------------------------------------
(* The regular expressions of normalizeWhenLocalPair *)

\* the smallest element of a non-empty set of integers
MinOf(S) == CHOOSE x \in S : \A y \in S : x <= y

\* (\d{1,2})(?::(\d{2}))?\b at position q, or with needMin (\d{1,2}):(\d{2})\b.
\* The alternatives are tried in the matcher's backtracking order: two digits
\* before one, with the minutes before without.
TimeTailAt(s, q, needMin) ==
  LET fits(k, withMin) ==
        /\ DigitsAt(s, q, k)
        /\ IF withMin
             THEN /\ q + k <= Len(s)
                  /\ s[q + k] = 58
                  /\ DigitsAt(s, q + k + 1, 2)
                  /\ WordBoundary(s, q + k + 3)
             ELSE WordBoundary(s, q + k)
      got(k, withMin) ==
        [ok |-> TRUE,
         h  |-> parseInt(SubSeq(s, q, q + k - 1)),
         hasMin |-> withMin,
         m  |-> IF withMin THEN parseInt(SubSeq(s, q + k + 1, q + k + 2)) ELSE 0]
  IN IF fits(2, TRUE) THEN got(2, TRUE)
     ELSE IF ~needMin /\ fits(2, FALSE) THEN got(2, FALSE)
     ELSE IF fits(1, TRUE) THEN got(1, TRUE)
     ELSE IF ~needMin /\ fits(1, FALSE) THEN got(1, FALSE)
     ELSE [ok |-> FALSE, h |-> 0, hasMin |-> FALSE, m |-> 0]

\* /\bв\s*(\d{1,2})(?::(\d{2}))?\b/ matched at position p. "в" is not a word
\* character, so \b before it needs a word character (a digit, a Latin letter,
\* "_") right before it.
M1At(s, p) ==
  IF WordBoundary(s, p) /\ LitAt(s, p, <<1074>>)
  THEN TimeTailAt(s, SkipSpaces(s, p + 1), FALSE)
  ELSE [ok |-> FALSE, h |-> 0, hasMin |-> FALSE, m |-> 0]

\* /\b(\d{1,2}):(\d{2})\b/ matched at position p
M2At(s, p) ==
  IF WordBoundary(s, p)
  THEN TimeTailAt(s, p, TRUE)
  ELSE [ok |-> FALSE, h |-> 0, hasMin |-> FALSE, m |-> 0]

\* the positions where m1 and m2 match
M1Positions(source) == {p \in 1..Len(source) : M1At(source, p).ok}
M2Positions(source) == {p \in 1..Len(source) : M2At(source, p).ok}

\* the clamps of index.js:129 and 132
ClampM1(m1) ==
  [found |-> TRUE,
   h |-> Min(23, Max(0, m1.h)),
   m |-> IF m1.hasMin THEN Min(59, Max(0, m1.m)) ELSE 0]

ClampM2(m2) ==
  [found |-> TRUE, h |-> Min(23, Max(0, m2.h)), m |-> Min(59, Max(0, m2.m))]

\* extractTime (index.js:126-135): the leftmost match of m1, else of m2
extractTime(source) ==
  IF M1Positions(source) # {}
    THEN ClampM1(M1At(source, MinOf(M1Positions(source))))
  ELSE IF M2Positions(source) # {}
    THEN ClampM2(M2At(source, MinOf(M2Positions(source))))
  ELSE [found |-> FALSE, h |-> 12, m |-> 0]

\* const h = t.found ? t.h : 12; const m = t.found ? t.m : 0
HourOf(t) == IF t.found THEN t.h ELSE 12
MinuteOf(t) == IF t.found THEN t.m ELSE 0

\* weekdayDefs (index.js:144-152). Each regexp is \b stem [suf1] \b | \b pre \s+ stem [suf2] \b;
\* a full word has the empty suffix. In the sixth the second class holds the
\* Latin letter a (97), as the source does.
weekdayDefs == <<
  [stem |-> <<1087, 1086, 1085, 1077, 1076, 1077, 1083, 1100, 1085, 1080, 1082>>,  \* понедельник
   suf1 |-> {<<>>}, pre |-> <<1074>>, suf2 |-> {<<>>}, idx |-> 1],
  [stem |-> <<1074, 1090, 1086, 1088, 1085, 1080, 1082>>,                          \* вторник
   suf1 |-> {<<>>}, pre |-> <<1074, 1086>>, suf2 |-> {<<>>}, idx |-> 2],
  [stem |-> <<1089, 1088, 1077, 1076>>,                                            \* сред[ауы], в сред[ау]
   suf1 |-> {<<1072>>, <<1091>>, <<1099>>}, pre |-> <<1074>>,
   suf2 |-> {<<1072>>, <<1091>>}, idx |-> 3],
  [stem |-> <<1095, 1077, 1090, 1074, 1077, 1088, 1075>>,                          \* четверг
   suf1 |-> {<<>>}, pre |-> <<1074>>, suf2 |-> {<<>>}, idx |-> 4],
  [stem |-> <<1087, 1103, 1090, 1085, 1080, 1094>>,                                \* пятниц[ауы], в пятниц[ау]
   suf1 |-> {<<1072>>, <<1091>>, <<1099>>}, pre |-> <<1074>>,
   suf2 |-> {<<1072>>, <<1091>>}, idx |-> 5],
  [stem |-> <<1089, 1091, 1073, 1073, 1086, 1090>>,                                \* суббот[ауы], в суббот[уa]
   suf1 |-> {<<1072>>, <<1091>>, <<1099>>}, pre |-> <<1074>>,
   suf2 |-> {<<1091>>, <<97>>}, idx |-> 6],
  [stem |-> <<1074, 1086, 1089, 1082, 1088, 1077, 1089, 1077, 1085, 1100, 1077>>,  \* воскресенье
   suf1 |-> {<<>>}, pre |-> <<1074>>, suf2 |-> {<<>>}, idx |-> 0] >>

\* def.re.test(lower)
WeekdayTest(def, s) ==
  \E p \in 1..Len(s) :
    /\ WordBoundary(s, p)
    /\ \/ \E suf \in def.suf1 :
            /\ LitAt(s, p, def.stem \o suf)
            /\ WordBoundary(s, p + Len(def.stem) + Len(suf))
       \/ /\ LitAt(s, p, def.pre)
          /\ p + Len(def.pre) <= Len(s)
          /\ IsSpace(s[p + Len(def.pre)])
          /\ LET q == SkipSpaces(s, p + Len(def.pre))
             IN \E suf \in def.suf2 :
                  /\ LitAt(s, q, def.stem \o suf)
                  /\ WordBoundary(s, q + Len(def.stem) + Len(suf))

\* /\b(\d{1,2})[.](\d{1,2})(?:[.](\d{4}))?\b/ matched at position p, the
\* alternatives in backtracking order
DmAt(s, p) ==
  LET fits(k1, k2, withYear) ==
        /\ WordBoundary(s, p)
        /\ DigitsAt(s, p, k1)
        /\ p + k1 <= Len(s)
        /\ s[p + k1] = 46
        /\ DigitsAt(s, p + k1 + 1, k2)
        /\ IF withYear
             THEN /\ p + k1 + 1 + k2 <= Len(s)
                  /\ s[p + k1 + 1 + k2] = 46
                  /\ DigitsAt(s, p + k1 + k2 + 2, 4)
                  /\ WordBoundary(s, p + k1 + k2 + 6)
             ELSE WordBoundary(s, p + k1 + 1 + k2)
      got(k1, k2, withYear) ==
        [ok |-> TRUE,
         len |-> k1 + 1 + k2 + (IF withYear THEN 5 ELSE 0),
         day |-> parseInt(SubSeq(s, p, p + k1 - 1)),
         month |-> parseInt(SubSeq(s, p + k1 + 1, p + k1 + k2)),
         hasYear |-> withYear,
         year |-> IF withYear THEN parseInt(SubSeq(s, p + k1 + k2 + 2, p + k1 + k2 + 5)) ELSE 0]
  IN IF fits(2, 2, TRUE) THEN got(2, 2, TRUE)
     ELSE IF fits(2, 2, FALSE) THEN got(2, 2, FALSE)
     ELSE IF fits(2, 1, TRUE) THEN got(2, 1, TRUE)
     ELSE IF fits(2, 1, FALSE) THEN got(2, 1, FALSE)
     ELSE IF fits(1, 2, TRUE) THEN got(1, 2, TRUE)
     ELSE IF fits(1, 2, FALSE) THEN got(1, 2, FALSE)
     ELSE IF fits(1, 1, TRUE) THEN got(1, 1, TRUE)
     ELSE IF fits(1, 1, FALSE) THEN got(1, 1, FALSE)
     ELSE [ok |-> FALSE, len |-> 0, day |-> 0, month |-> 0, hasYear |-> FALSE, year |-> 0]

\* lower.replace(dm[0], ' '): the FIRST occurrence of the matched text becomes a space
ReplaceFirst(s, lit) ==
  LET P == {p \in 1..Len(s) : LitAt(s, p, lit)}
  IN IF P = {} \/ lit = <<>> THEN s
     ELSE LET p == MinOf(P)
          IN SubSeq(s, 1, p - 1) \o <<32>> \o SubSeq(s, p + Len(lit), Len(s))

----------------------------------------------------------------------------
(* new Date(string) and the resolver *)

\* the value of an invalid Date (getTime() is NaN)
InvalidDate == [valid |-> FALSE, t |-> 0]

\* s[from..] is dddd-dd-dd
IsoDateAt(s) ==
  /\ Len(s) >= 10
  /\ DigitsAt(s, 1, 4) /\ s[5] = 45 /\ DigitsAt(s, 6, 2) /\ s[8] = 45 /\ DigitsAt(s, 9, 2)

\* s[11..19] is Tdd:dd:dd
IsoTimeAt(s) ==
  /\ Len(s) >= 19
  /\ s[11] = 84 /\ DigitsAt(s, 12, 2) /\ s[14] = 58 /\ DigitsAt(s, 15, 2)
  /\ s[17] = 58 /\ DigitsAt(s, 18, 2)

\* new Date(s) for the strings the program hands it: the ECMAScript date-time
\* string format. A date-only form is UTC, a date-time without offset is local
\* time of the process's zone, a form ending in Z is UTC. Month 1..12, day 1..31
\* (a day past the month's end carries over, as V8 does), hour 0..23, minute and
\* second 0..59; anything else is an invalid Date. Text with no digit at all is
\* invalid in every engine; other text with digits is implementation-defined and
\* is kept out of the model's inputs.
DateParse(s, hostOffsetMin) ==
  IF ~IsoDateAt(s) THEN InvalidDate
  ELSE
    LET y  == parseInt(SubSeq(s, 1, 4))
        mo == parseInt(SubSeq(s, 6, 7))
        d  == parseInt(SubSeq(s, 9, 10))
        dateOk == mo \in 1..12 /\ d \in 1..31
    IN IF Len(s) = 10
       THEN IF dateOk THEN [valid |-> TRUE, t |-> DateUTC(y, mo, d, 0, 0, 0)] ELSE InvalidDate
       ELSE IF ~IsoTimeAt(s) THEN InvalidDate
       ELSE
         LET h  == parseInt(SubSeq(s, 12, 13))
             mi == parseInt(SubSeq(s, 15, 16))
             se == parseInt(SubSeq(s, 18, 19))
             ok == dateOk /\ h \in 0..23 /\ mi \in 0..59 /\ se \in 0..59
             utc == DateUTC(y, mo, d, h, mi, se)
         IN IF ~ok THEN InvalidDate
            ELSE IF Len(s) = 19 THEN [valid |-> TRUE, t |-> utc - hostOffsetMin * 60]
            ELSE IF Len(s) = 24 /\ SubSeq(s, 20, 24) = <<46, 48, 48, 48, 90>>
                 THEN [valid |-> TRUE, t |-> utc]
            ELSE InvalidDate

\* parseLocalPlainToDate (index.js:216-222)
parseLocalPlainToDate(localPlain, timeZone, hostOffsetMin) ==
  IF Len(localPlain) = 19 /\ IsoDateAt(localPlain) /\ IsoTimeAt(localPlain)
  THEN [valid |-> TRUE,
        t |-> zonedDateTimeToUTCISO(parseInt(SubSeq(localPlain, 1, 4)),
                                    parseInt(SubSeq(localPlain, 6, 7)),
                                    parseInt(SubSeq(localPlain, 9, 10)),
                                    parseInt(SubSeq(localPlain, 12, 13)),
                                    parseInt(SubSeq(localPlain, 15, 16)), timeZone)]
  ELSE DateParse(localPlain, hostOffsetMin)

\* build (index.js:137-141). rule is not a field of the source's result: it
\* records which branch of normalizeWhenLocalPair returned.
build(rule, y, mo, d, h, mi, timeZone) ==
  [rule |-> rule,
   utcISO |-> toISOString(zonedDateTimeToUTCISO(y, mo, d, h, mi, timeZone)),
   localPlain |-> NumToStr(y) \o <<45>> \o pad(mo) \o <<45>> \o pad(d) \o <<84>>
                  \o pad(h) \o <<58>> \o pad(mi) \o <<58, 48, 48>>]

\* build on the date of civil parts
BuildAt(rule, date, h, m, timeZone) ==
  build(rule, date.year, date.month, date.day, h, m, timeZone)

\* { ...nowParts, hour: h, minute: m }
AtClock(nowParts, h, m) ==
  [year |-> nowParts.year, month |-> nowParts.month, day |-> nowParts.day,
   hour |-> h, minute |-> m]

\* new Date(zonedDateTimeToUTCISO(nowParts...)) (index.js:153, 163): now cut to the minute
NowDate(nowParts, timeZone) ==
  zonedDateTimeToUTCISO(nowParts.year, nowParts.month, nowParts.day,
                        nowParts.hour, nowParts.minute, timeZone)

\* let delta = def.idx - nowDOW; if (delta < 0) delta += 7
DeltaDays(idx, nowDOW) == IF idx - nowDOW < 0 THEN idx - nowDOW + 7 ELSE idx - nowDOW

\* index.js:162-167: a target not strictly after now moves 7 days on
RollWeek(target, h, m, nowDate, timeZone) ==
  IF zonedDateTimeToUTCISO(target.year, target.month, target.day, h, m, timeZone) <= nowDate
  THEN addDaysLocalParts(target, 7, timeZone)
  ELSE target

\* index.js:159-168 with the time and now's day of the week known
WeekdayTarget(idx, h, m, nowDate, nowParts, timeZone, hostOffsetMin) ==
  BuildAt("weekday",
          RollWeek(addDaysLocalParts(AtClock(nowParts, h, m),
                                     DeltaDays(idx, getDay(nowDate, hostOffsetMin)), timeZone),
                   h, m, nowDate, timeZone),
          h, m, timeZone)

WeekdayAt(def, t, nowParts, timeZone, hostOffsetMin) ==
  WeekdayTarget(def.idx, HourOf(t), MinuteOf(t), NowDate(nowParts, timeZone),
                nowParts, timeZone, hostOffsetMin)

\* the weekday branch for the definition def (index.js:155-169)
WeekdayBranch(def, lower, nowParts, timeZone, hostOffsetMin) ==
  WeekdayAt(def, extractTime(lower), nowParts, timeZone, hostOffsetMin)

RelativeAt(days, h, m, nowParts, timeZone) ==
  BuildAt("relative",
          IF days = 0 THEN nowParts
          ELSE addDaysLocalParts(AtClock(nowParts, h, m), days, timeZone),
          h, m, timeZone)

RelativeTime(days, t, nowParts, timeZone) ==
  RelativeAt(days, HourOf(t), MinuteOf(t), nowParts, timeZone)

\* the relative-word branches (index.js:173-192): послезавтра 2, завтра 1, сегодня 0
RelativeBranch(days, lower, nowParts, timeZone) ==
  RelativeTime(days, extractTime(lower), nowParts, timeZone)

NumericTime(dm, t, nowParts, timeZone) ==
  build("numeric", IF dm.hasYear THEN dm.year ELSE nowParts.year, dm.month, dm.day,
        HourOf(t), MinuteOf(t), timeZone)

NumericAt(lower, p, dm, nowParts, timeZone) ==
  NumericTime(dm, extractTime(ReplaceFirst(lower, SubSeq(lower, p, p + dm.len - 1))),
              nowParts, timeZone)

\* the positions where the D.M(.YYYY) regexp matches
DmPositions(lower) == {p \in 1..Len(lower) : DmAt(lower, p).ok}

\* the numeric-date branch (index.js:195-205), the leftmost match at p
NumericBranch(lower, p, nowParts, timeZone) ==
  NumericAt(lower, p, DmAt(lower, p), nowParts, timeZone)

GenericAt(pp, timeZone) ==
  build("generic", pp.year, pp.month, pp.day, pp.hour, pp.minute, timeZone)

\* a fallback that returns the text in lower case: C10 tells it from the source's
FallbackLowered(src, parsed, timeZone) ==
  IF parsed.valid
  THEN GenericAt(getTzParts(parsed.t, timeZone), timeZone)
  ELSE [rule |-> "none", utcISO |-> toLowerCase(src), localPlain |-> toLowerCase(src)]

\* the fallback (index.js:208-213)
FallbackOf(src, parsed, timeZone) ==
  IF parsed.valid
  THEN GenericAt(getTzParts(parsed.t, timeZone), timeZone)
  ELSE [rule |-> "none", utcISO |-> src, localPlain |-> src]

\* the weekday definitions whose regexp matches
WeekdayHits(lower) == {i \in 1..Len(weekdayDefs) : WeekdayTest(weekdayDefs[i], lower)}

\* index.js:143-214 on the trimmed text, its lower case and the parts of now
ResolveLower(src, lower, nowParts, timeZone, hostOffsetMin) ==
  IF WeekdayHits(lower) # {}
    THEN WeekdayBranch(weekdayDefs[MinOf(WeekdayHits(lower))], lower, nowParts,
                       timeZone, hostOffsetMin)
  ELSE IF Contains(lower, <<1087, 1086, 1089, 1083, 1077, 1079, 1072, 1074, 1090, 1088, 1072>>)
    THEN RelativeBranch(2, lower, nowParts, timeZone)     \* послезавтра
  ELSE IF Contains(lower, <<1079, 1072, 1074, 1090, 1088, 1072>>)
    THEN RelativeBranch(1, lower, nowParts, timeZone)     \* завтра
  ELSE IF Contains(lower, <<1089, 1077, 1075, 1086, 1076, 1085, 1103>>)
    THEN RelativeBranch(0, lower, nowParts, timeZone)     \* сегодня
  ELSE IF DmPositions(lower) # {}
    THEN NumericBranch(lower, MinOf(DmPositions(lower)), nowParts, timeZone)
  ELSE FallbackOf(src, DateParse(src, hostOffsetMin), timeZone)

ResolveSrc(src, nowParts, timeZone, hostOffsetMin) ==
  ResolveLower(src, toLowerCase(src), nowParts, timeZone, hostOffsetMin)

\* normalizeWhenLocalPair (index.js:120-214), with new Date() = nowInstant
normalizeWhenLocalPair(input, nowInstant, timeZone, hostOffsetMin) ==
  ResolveSrc(trim(input), getTzParts(nowInstant, timeZone), timeZone, hostOffsetMin)

----------------------------------------------------------------------------
(* The late-night clarification policy and the formatting of its prompt *)

\* isLateNightLocal (index.js:241-246), with new Date() = nowInstant
isLateNightLocal(nowInstant, timeZone) ==
  LET h == getTzParts(nowInstant, timeZone).hour
  IN h >= 22 \/ h < 4

\* hasExplicitCalendarDate (index.js:248-253):
\* /\b\d{4}-\d{2}-\d{2}\b/ or /\b\d{1,2}[.]\d{1,2}([.]\d{2,4})?\b/
hasExplicitCalendarDate(input) ==
  LET s == toLowerCase(input)
  IN \E p \in 1..Len(s) :
       /\ WordBoundary(s, p)
       /\ \/ /\ IsoDateAt(SubSeq(s, p, Len(s)))
             /\ WordBoundary(s, p + 10)
          \/ \E k1 \in 1..2, k2 \in 1..2 :
               /\ DigitsAt(s, p, k1)
               /\ p + k1 <= Len(s)
               /\ s[p + k1] = 46
               /\ DigitsAt(s, p + k1 + 1, k2)
               /\ \/ WordBoundary(s, p + k1 + 1 + k2)
                  \/ \E k3 \in 2..4 :
                       /\ p + k1 + 1 + k2 <= Len(s)
                       /\ s[p + k1 + 1 + k2] = 46
                       /\ DigitsAt(s, p + k1 + k2 + 2, k3)
                       /\ WordBoundary(s, p + k1 + k2 + 2 + k3)

\* the words of containsRelativeOrWeekday's two regexps (index.js:257-258)
RelativeWords == {
  <<1089, 1077, 1075, 1086, 1076, 1085, 1103>>,                                \* сегодня
  <<1079, 1072, 1074, 1090, 1088, 1072>>,                                      \* завтра
  <<1087, 1086, 1089, 1083, 1077, 1079, 1072, 1074, 1090, 1088, 1072>> }       \* послезавтра
WeekdayWords == {
  <<1087, 1086, 1085, 1077, 1076, 1077, 1083, 1100, 1085, 1080, 1082>>,        \* понедельник
  <<1074, 1090, 1086, 1088, 1085, 1080, 1082>>,                                \* вторник
  <<1089, 1088, 1077, 1076, 1072>>,                                            \* среда
  <<1095, 1077, 1090, 1074, 1077, 1088, 1075>>,                                \* четверг
  <<1087, 1103, 1090, 1085, 1080, 1094, 1072>>,                                \* пятница
  <<1089, 1091, 1073, 1073, 1086, 1090, 1072>>,                                \* суббота
  <<1074, 1086, 1089, 1082, 1088, 1077, 1089, 1077, 1085, 1100, 1077>> }       \* воскресенье

\* containsRelativeOrWeekday (index.js:255-260)
containsRelativeOrWeekday(input) ==
  LET s == toLowerCase(input)
  IN \/ \E w \in RelativeWords : Contains(s, w)
     \/ \E w \in WeekdayWords : Contains(s, w)

\* `${pad(parts.day)}.${pad(parts.month)}.${parts.year}`
DDMMYYYY(parts) == pad(parts.day) \o <<46>> \o pad(parts.month) \o <<46>> \o NumToStr(parts.year)

FormatParsed(d, timeZone) ==
  IF ~d.valid THEN <<>> ELSE DDMMYYYY(getTzParts(d.t, timeZone))

\* formatDateDDMMYYYY (index.js:262-268): '' for an invalid date
formatDateDDMMYYYY(date, timeZone, hostOffsetMin) ==
  FormatParsed(parseLocalPlainToDate(date, timeZone, hostOffsetMin), timeZone)

\* the condition both tools test before booking (index.js:638, 708)
NeedsClarification(when, nowInstant, timeZone) ==
  /\ containsRelativeOrWeekday(when)
  /\ ~hasExplicitCalendarDate(when)
  /\ isLateNightLocal(nowInstant, timeZone)

----------------------------------------------------------------------------
(* The ledger: Google Sheets first, bookings.json as the fallback *)

\* String(phone).replace(/\D+/g, '')
RECURSIVE DigitsOnly(_)
DigitsOnly(s) ==
  IF s = <<>> THEN <<>>
  ELSE (IF IsDigit(Head(s)) THEN <<Head(s)>> ELSE <<>>) \o DigitsOnly(Tail(s))

\* normalizePhone (index.js:525-536)
normalizePhone(phone) ==
  IF phone = <<>> THEN <<>>
  ELSE LET digits == DigitsOnly(phone)
       IN IF Len(digits) = 11 /\ digits[1] \in {55, 56}
            THEN <<55>> \o Tail(digits)
          ELSE IF Len(digits) = 10 THEN <<55>> \o digits
          ELSE digits

\* loadBookings (index.js:511-523): the sheet's rows when Sheets answers, else the file
loadBookings(sheetOk) == IF sheetOk THEN sheet ELSE file

\* parseWhenToDate (index.js:583-591): new Date(when), read in the PROCESS's zone
parseWhenToDate(when, hostOffsetMin) == DateParse(when, hostOffsetMin)

\* isFutureDate (index.js:593-597)
isFutureDate(dt, nowInstant) == dt.valid /\ dt.t > nowInstant

\* b.status !== 'canceled'
IsActive(b) == b.status # "canceled"

\* the indices of the caller's bookings that are not canceled (index.js:693, 754)
Candidates(list, telegramUserId) ==
  {i \in 1..Len(list) : list[i].userId = telegramUserId /\ IsActive(list[i])}

----------------------------------------------------------------------------
(* Inputs *)

\* the largest number of tool calls in one run
MaxCalls == 2

\* Telegram user ids
Users == {1, 2}

Phones == {
  <<56, 32, 57, 48, 48, 32, 49, 49, 49, 45, 50, 50, 45, 51, 51>>,   \* "8 900 111-22-33"
  <<57, 48, 48, 50, 50, 50, 51, 51, 52, 52>> }                      \* "9002223344"

\* The readings of the wall clock (UTC). 2025-10-04 is a Saturday, 2025-10-10 a
\* Friday; Europe/Berlin leaves summer time on Sunday 2025-10-26 at 01:00Z.
Nows == {
  DateUTC(2025, 10, 4, 4, 0, 30),    \* Omsk Sat 10:00:30   Berlin Sat 06:00:30
  DateUTC(2025, 10, 4, 9, 0, 0),     \* Omsk Sat 15:00      Berlin Sat 11:00
  DateUTC(2025, 10, 4, 17, 10, 0),   \* Omsk Sat 23:10      Berlin Sat 19:10
  DateUTC(2025, 10, 4, 21, 30, 0),   \* Omsk Sun 03:30      Berlin Sat 23:30
  DateUTC(2025, 10, 10, 5, 0, 0),    \* Omsk Fri 11:00      Berlin Fri 07:00
  DateUTC(2025, 10, 10, 10, 30, 0),  \* Omsk Fri 16:30      Berlin Fri 12:30
  DateUTC(2025, 10, 26, 8, 0, 0) }   \* Omsk Sun 14:00      Berlin Sun 09:00 (winter time)

\* the readings of the clock between calls of the booking tools
ToolNows == {
  DateUTC(2025, 10, 4, 9, 0, 0),     \* Omsk Sat 15:00
  DateUTC(2025, 10, 4, 17, 10, 0),   \* Omsk Sat 23:10, late night
  DateUTC(2025, 10, 5, 8, 0, 0),     \* Omsk Sun 14:00, two hours after noon
  DateUTC(2025, 10, 26, 8, 0, 0) }   \* Omsk Sun 14:00, three weeks later

\* the weekday names by index (0 is Sunday), in the form that follows "в"
WeekdayNames == <<
  <<1087, 1086, 1085, 1077, 1076, 1077, 1083, 1100, 1085, 1080, 1082>>,   \* 1 понедельник
  <<1074, 1090, 1086, 1088, 1085, 1080, 1082>>,                           \* 2 вторник
  <<1089, 1088, 1077, 1076, 1091>>,                                       \* 3 среду
  <<1095, 1077, 1090, 1074, 1077, 1088, 1075>>,                           \* 4 четверг
  <<1087, 1103, 1090, 1085, 1080, 1094, 1091>>,                           \* 5 пятницу
  <<1089, 1091, 1073, 1073, 1086, 1090, 1091>>,                           \* 6 субботу
  <<1074, 1086, 1089, 1082, 1088, 1077, 1089, 1077, 1085, 1100, 1077>> >> \* 7 = 0 воскресенье

\* "в " + W
InWeekday(i) == <<1074, 32>> \o WeekdayNames[i]

InWeekdayTexts == {InWeekday(i) : i \in 1..7}

T_pyatnitsa     == <<1087, 1103, 1090, 1085, 1080, 1094, 1072>>                      \* "пятница"
T_1pyatnitsa1   == <<49, 1087, 1103, 1090, 1085, 1080, 1094, 1072, 49>>              \* "1пятница1"
T_1pyatnitsa1_t == <<49, 1087, 1103, 1090, 1085, 1080, 1094, 1072, 49, 32, 49, 51, 58, 48, 48>>  \* "1пятница1 13:00"
T_1subbota1     == <<49, 1089, 1091, 1073, 1073, 1086, 1090, 1072, 49, 32, 57, 58, 51, 48>>      \* "1суббота1 9:30"
T_segodnya      == <<1089, 1077, 1075, 1086, 1076, 1085, 1103>>                      \* "сегодня"
T_zavtra        == <<1079, 1072, 1074, 1090, 1088, 1072>>                            \* "завтра"
T_poslezavtra   == <<1087, 1086, 1089, 1083, 1077, 1079, 1072, 1074, 1090, 1088, 1072>>  \* "послезавтра"
T_zavtra_v9     == <<1079, 1072, 1074, 1090, 1088, 1072, 32, 1074, 32, 57>>          \* "завтра в 9"
T_zavtra_v930   == <<1079, 1072, 1074, 1090, 1088, 1072, 32, 1074, 32, 57, 58, 51, 48>>  \* "завтра в 9:30"
T_zavtra_930    == <<1079, 1072, 1074, 1090, 1088, 1072, 32, 57, 58, 51, 48>>        \* "завтра 9:30"
T_zavtra_2570   == <<1079, 1072, 1074, 1090, 1088, 1072, 32, 50, 53, 58, 55, 48>>    \* "завтра 25:70"
T_zavtra_030    == <<1079, 1072, 1074, 1090, 1088, 1072, 32, 48, 58, 51, 48>>        \* "завтра 0:30"
T_date_v1830    == <<50, 53, 46, 49, 50, 46, 50, 48, 50, 53, 32, 1074, 32, 49, 56, 58, 51, 48>>  \* "25.12.2025 в 18:30"
T_date          == <<50, 53, 46, 49, 50, 46, 50, 48, 50, 53>>                        \* "25.12.2025"
T_date_v18      == <<50, 53, 46, 49, 50, 46, 50, 48, 50, 53, 32, 1074, 32, 49, 56>>  \* "25.12.2025 в 18"
T_date_705      == <<53, 46, 49, 46, 50, 48, 50, 54, 32, 55, 58, 48, 53>>            \* "5.1.2026 7:05"
T_dm            == <<49, 50, 46, 48, 53>>                                            \* "12.05"
T_potom         == <<1087, 1086, 1090, 1086, 1084>>                                  \* "потом"
T_Potom_sp      == <<32, 1055, 1086, 1090, 1086, 1084, 32>>                          \* " Потом "
T_iso           == <<50, 48, 50, 53, 45, 49, 48, 45, 48, 53>>                        \* "2025-10-05"
T_0510          == <<48, 53, 46, 49, 48, 46, 50, 48, 50, 53>>                        \* "05.10.2025"
T_zavtra_0510   == <<1079, 1072, 1074, 1090, 1088, 1072, 32, 48, 53, 46, 49, 48, 46, 50, 48, 50, 53>>  \* "завтра 05.10.2025"
T_pyatnitsa_zavtra == <<1087, 1103, 1090, 1085, 1080, 1094, 1072, 32, 1079, 1072, 1074, 1090, 1088, 1072>>  \* "пятница завтра"
T_3102          == <<51, 49, 46, 48, 50>>                                            \* "31.02"
T_4513          == <<52, 53, 46, 49, 51>>                                            \* "45.13"

\* the texts handed to the resolver
Texts == InWeekdayTexts \cup {
  T_pyatnitsa, T_1pyatnitsa1, T_1pyatnitsa1_t, T_1subbota1,
  T_segodnya, T_zavtra, T_poslezavtra, T_zavtra_v9, T_zavtra_v930, T_zavtra_930,
  T_zavtra_2570, T_zavtra_030,
  T_date_v1830, T_date, T_date_v18, T_date_705, T_dm,
  T_potom, T_Potom_sp, T_iso, T_0510, T_zavtra_0510,
  T_pyatnitsa_zavtra, T_3102, T_4513 }

\* the texts the language model hands to the booking tools as when / newWhen
ToolTexts == {T_pyatnitsa, InWeekday(5), T_zavtra, T_0510}

T_0510_1203 == <<48, 53, 46, 49, 48, 46, 50, 48, 50, 53, 32, 49, 50, 58, 48, 51>>  \* "05.10.2025 12:03"
T_0510_1205 == <<48, 53, 46, 49, 48, 46, 50, 48, 50, 53, 32, 49, 50, 58, 48, 53>>  \* "05.10.2025 12:05"

\* the texts handed to cancel_trial as when: those of a booking, and two that
\* name a moment 3 and 5 minutes after the noon of a booked day
CancelTexts == ToolTexts \cup {T_0510_1203, T_0510_1205}

\* the instants whose projection into the zone is converted back
Instants == Nows \cup {
  DateUTC(2025, 7, 1, 12, 0, 0),
  DateUTC(2025, 7, 1, 12, 0, 59),
  DateUTC(2025, 12, 31, 23, 59, 0),
  DateUTC(2025, 10, 25, 22, 30, 0),     \* Berlin 00:30 summer time, 2 h 30 before the change
  DateUTC(2025, 10, 26, 0, 30, 0),      \* Berlin 02:30 summer time, the repeated hour
  DateUTC(2025, 10, 26, 1, 30, 0),      \* Berlin 02:30 winter time, the repeated hour
  DateUTC(2025, 10, 26, 3, 0, 0),
  DateUTC(2025, 3, 30, 0, 30, 0),       \* Berlin 01:30, half an hour before the spring change
  DateUTC(2025, 3, 30, 1, 30, 0) }      \* Berlin 03:30 summer time

----------------------------------------------------------------------------
(* State *)

NoPair == [rule |-> "none", utcISO |-> <<>>, localPlain |-> <<>>]

\* the tool executions that may overlap: the tool calls of one generateText step
\* run concurrently, and so do those of two bot processes on one spreadsheet
Procs == {1, 2}

\* an execution slot that holds no call
NoExecution == [pc |-> "idle", tool |-> "none", user |-> 0, phone |-> <<>>, text |-> <<>>,
                list |-> <<>>, answer |-> ""]

\* what `last` holds before any call
Idle == [tool |-> "none", user |-> 0, text |-> <<>>, at |-> 0, answer |-> "",
         prompt |-> <<>>, pair |-> NoPair, loaded |-> FALSE, saved |-> FALSE,
         instant |-> 0, back |-> 0]

\* the record of a tool call: its input, the clock it read, its answer, the date
\* inside a clarification prompt, the resolved pair, whether it read the ledger
\* (loadBookings) and whether it wrote it (appendBooking / saveBookings)
Call(tool, user, text, answer, prompt, pair, loaded, saved) ==
  [tool |-> tool, user |-> user, text |-> text, at |-> now, answer |-> answer,
   prompt |-> prompt, pair |-> pair, loaded |-> loaded, saved |-> saved,
   instant |-> 0, back |-> 0]

Init ==
  /\ zone \in Zones
  /\ host \in HostOffsets
  /\ now \in Nows
  /\ sheet = <<>>
  /\ file = <<>>
  /\ last = Idle
  /\ calls = 0
  /\ mem = [p \in Procs |-> NoExecution]

\* the booking tools run in the default zone (index.js:36), at one of ToolNows
InitTools ==
  /\ zone = Omsk
  /\ host \in HostOffsets
  /\ now \in ToolNows
  /\ sheet = <<>>
  /\ file = <<>>
  /\ last = Idle
  /\ calls = 0
  /\ mem = [p \in Procs |-> NoExecution]

\* the wall clock moves on
Tick ==
  /\ \E t \in ToolNows : t > now /\ now' = t
  /\ UNCHANGED <<zone, host, sheet, file, last, calls, mem>>

----------------------------------------------------------------------------
(* The resolver and the projector called on their own *)

\* normalizeWhenLocalPair(text) at the current clock
Resolve ==
  /\ \E text \in Texts :
       last' = Call("resolve", 0, text, "resolved", <<>>,
                    normalizeWhenLocalPair(text, now, zone, host), FALSE, FALSE)
  /\ UNCHANGED <<zone, host, now, sheet, file, calls, mem>>

\* zonedDateTimeToUTCISO of the year, month, day, hour and minute of a projection
Unproject(p, timeZone) ==
  zonedDateTimeToUTCISO(p.year, p.month, p.day, p.hour, p.minute, timeZone)

\* an instant projected with getTzParts and converted back with zonedDateTimeToUTCISO
RoundTrip ==
  /\ \E t \in Instants :
       last' = [Idle EXCEPT !.tool = "roundtrip", !.at = now, !.instant = t,
                            !.back = Unproject(getTzParts(t, zone), zone)]
  /\ UNCHANGED <<zone, host, now, sheet, file, calls, mem>>

----------------------------------------------------------------------------
(* The booking tools (buildTools, index.js:600-817). Each action is one execute()
   run to completion. sheetOk / outcome say whether Google Sheets answered. *)

\* appendBooking (index.js:476-493)
appendBooking(record, sheetOk) ==
  IF sheetOk
  THEN sheet' = Append(sheet, record) /\ UNCHANGED file
  ELSE file' = Append(file, record) /\ UNCHANGED sheet

\* the ways sheetSaveBookings can end: done; failed before it cleared the rows;
\* failed after the clear and before the update (index.js:445-474)
SaveOutcomes == {"sheet", "file", "cleared"}

\* saveBookings (index.js:571-581)
saveBookings(list, outcome) ==
  CASE outcome = "sheet"   -> sheet' = list /\ UNCHANGED file
    [] outcome = "file"    -> file' = list /\ UNCHANGED sheet
    [] outcome = "cleared" -> sheet' = <<>> /\ file' = list

\* a clarification that also writes the candidate into bookings.json: C11 tells it
\* from the source's
ClarifyAndStore(tool, telegramUserId, when, pair, loaded) ==
  /\ last' = Call(tool, telegramUserId, when, "clarify", <<>>, pair, loaded, FALSE)
  /\ file' = Append(file, [userId |-> telegramUserId, phone |-> <<>>, phoneNormalized |-> <<>>,
                           when |-> pair.localPlain, createdAt |-> now, updatedAt |-> 0,
                           status |-> "", canceledAt |-> 0])
  /\ sheet' = sheet

\* the clarification answer of both tools (index.js:639-644, 709-714): the prompt
\* holds the date, or is the dateless one when formatDateDDMMYYYY gives ''
Clarify(tool, telegramUserId, when, pair, loaded) ==
  /\ last' = Call(tool, telegramUserId, when, "clarify",
                  formatDateDDMMYYYY(pair.localPlain, zone, host), pair, loaded, FALSE)
  /\ UNCHANGED <<sheet, file>>

\* existing.some(...) of index.js:648-653
AlreadyHas(existing, telegramUserId, phoneNormalized) ==
  \E i \in 1..Len(existing) :
    /\ \/ existing[i].userId = telegramUserId
       \/ /\ phoneNormalized # <<>>
          /\ normalizePhone(IF existing[i].phoneNormalized # <<>>
                            THEN existing[i].phoneNormalized ELSE existing[i].phone) # <<>>
          /\ normalizePhone(IF existing[i].phoneNormalized # <<>>
                            THEN existing[i].phoneNormalized ELSE existing[i].phone) = phoneNormalized
    /\ IsActive(existing[i])

\* index.js:660-684: the record is built and appended
CreateBooking(telegramUserId, phone, when, pair, appendOk) ==
  /\ appendBooking([userId |-> telegramUserId, phone |-> phone,
                    phoneNormalized |-> normalizePhone(phone), when |-> pair.localPlain,
                    createdAt |-> now, updatedAt |-> 0, status |-> "", canceledAt |-> 0],
                   appendOk)
  /\ last' = Call("book_trial", telegramUserId, when, "created", <<>>, pair, TRUE, TRUE)

\* book_trial.execute after the load (index.js:647-684), existing being the list loaded
BookList(telegramUserId, phone, when, existing, appendOk) ==
  IF AlreadyHas(existing, telegramUserId, normalizePhone(phone))
  THEN /\ last' = Call("book_trial", telegramUserId, when, "already", <<>>, NoPair, TRUE, FALSE)
       /\ UNCHANGED <<sheet, file>>
  ELSE CreateBooking(telegramUserId, phone, when,
                     normalizeWhenLocalPair(when, now, zone, host), appendOk)

\* book_trial.execute (index.js:636-685)
book_trial(telegramUserId, phone, when, loadOk, appendOk) ==
  IF NeedsClarification(when, now, zone)
  THEN Clarify("book_trial", telegramUserId, when,
               normalizeWhenLocalPair(when, now, zone, host), FALSE)
  ELSE BookList(telegramUserId, phone, when, loadBookings(loadOk), appendOk)

\* the candidate the reduce of index.js:701-705 keeps: the latest createdAt, the
\* later in the list among equals
LatestCreated(list, cands) ==
  CHOOSE i \in cands :
    \A j \in cands : \/ list[j].createdAt < list[i].createdAt
                     \/ (list[j].createdAt = list[i].createdAt /\ j <= i)

\* index.js:716-745: the target's when and updatedAt are set and the list is saved
MoveBooking(telegramUserId, newWhen, list, target, pair, outcome) ==
  /\ saveBookings([list EXCEPT ![target].when = pair.localPlain,
                               ![target].updatedAt = now], outcome)
  /\ last' = Call("reschedule_trial", telegramUserId, newWhen, "rescheduled", <<>>, pair, TRUE, TRUE)

RescheduleIn(telegramUserId, newWhen, list, cands, outcome) ==
  IF cands = {}
  THEN /\ last' = Call("reschedule_trial", telegramUserId, newWhen, "not_found", <<>>, NoPair, TRUE, FALSE)
       /\ UNCHANGED <<sheet, file>>
  ELSE IF NeedsClarification(newWhen, now, zone)
  THEN Clarify("reschedule_trial", telegramUserId, newWhen,
               normalizeWhenLocalPair(newWhen, now, zone, host), TRUE)
  ELSE MoveBooking(telegramUserId, newWhen, list, LatestCreated(list, cands),
                   normalizeWhenLocalPair(newWhen, now, zone, host), outcome)

RescheduleList(telegramUserId, newWhen, list, outcome) ==
  RescheduleIn(telegramUserId, newWhen, list, Candidates(list, telegramUserId), outcome)

\* reschedule_trial.execute (index.js:690-746)
reschedule_trial(telegramUserId, newWhen, loadOk, outcome) ==
  RescheduleList(telegramUserId, newWhen, loadBookings(loadOk), outcome)

\* candidates up to and including 5 minutes away: C14 tells it from the source's
NearCandidatesInclusive(list, cands, targetDt) ==
  {i \in cands : /\ targetDt.valid
                 /\ parseLocalPlainToDate(list[i].when, zone, host).valid
                 /\ Abs(parseLocalPlainToDate(list[i].when, zone, host).t - targetDt.t) <= 5 * 60}

\* the candidates within 5 minutes of targetDt (index.js:761-767)
NearCandidates(list, cands, targetDt) ==
  {i \in cands : /\ targetDt.valid
                 /\ parseLocalPlainToDate(list[i].when, zone, host).valid
                 /\ Abs(parseLocalPlainToDate(list[i].when, zone, host).t - targetDt.t) < 5 * 60}

\* the candidates whose when is the resolved string (index.js:759)
ExactCandidates(list, cands, localPlain) ==
  {i \in cands : trim(list[i].when) = trim(localPlain)}

\* the booking cancel_trial selects (index.js:758-769): 0 when none
CancelTarget(list, cands, localPlain) ==
  IF ExactCandidates(list, cands, localPlain) # {}
    THEN MinOf(ExactCandidates(list, cands, localPlain))
  ELSE IF NearCandidates(list, cands, parseLocalPlainToDate(localPlain, zone, host)) # {}
    THEN MinOf(NearCandidates(list, cands, parseLocalPlainToDate(localPlain, zone, host)))
  ELSE 0

\* index.js:770-782 with the selected booking
CancelAt(telegramUserId, when, list, target, pair, outcome) ==
  IF target = 0
  THEN /\ last' = Call("cancel_trial", telegramUserId, when, "no_match", <<>>, pair, TRUE, FALSE)
       /\ UNCHANGED <<sheet, file>>
  ELSE IF ~isFutureDate(parseWhenToDate(list[target].when, host), now)
  THEN /\ last' = Call("cancel_trial", telegramUserId, when, "past", <<>>, pair, TRUE, FALSE)
       /\ UNCHANGED <<sheet, file>>
  ELSE /\ saveBookings([list EXCEPT ![target].status = "canceled",
                                    ![target].canceledAt = now], outcome)
       /\ last' = Call("cancel_trial", telegramUserId, when, "canceled", <<>>, pair, TRUE, TRUE)

CancelWith(telegramUserId, when, list, cands, pair, outcome) ==
  CancelAt(telegramUserId, when, list, CancelTarget(list, cands, pair.localPlain), pair, outcome)

CancelIn(telegramUserId, when, list, cands, outcome) ==
  IF cands = {}
  THEN /\ last' = Call("cancel_trial", telegramUserId, when, "no_active", <<>>, NoPair, TRUE, FALSE)
       /\ UNCHANGED <<sheet, file>>
  ELSE CancelWith(telegramUserId, when, list, cands,
                  normalizeWhenLocalPair(when, now, zone, host), outcome)

CancelList(telegramUserId, when, list, outcome) ==
  CancelIn(telegramUserId, when, list, Candidates(list, telegramUserId), outcome)

\* cancel_trial.execute (index.js:751-815)
cancel_trial(telegramUserId, when, loadOk, outcome) ==
  CancelList(telegramUserId, when, loadBookings(loadOk), outcome)

Book ==
  /\ calls < MaxCalls
  /\ calls' = calls + 1
  /\ \E u \in Users, phone \in Phones, when \in ToolTexts, loadOk \in BOOLEAN, appendOk \in BOOLEAN :
       book_trial(u, phone, when, loadOk, appendOk)
  /\ UNCHANGED <<zone, host, now, mem>>

Reschedule ==
  /\ calls < MaxCalls
  /\ calls' = calls + 1
  /\ \E u \in Users, newWhen \in ToolTexts, loadOk \in BOOLEAN, outcome \in SaveOutcomes :
       reschedule_trial(u, newWhen, loadOk, outcome)
  /\ UNCHANGED <<zone, host, now, mem>>

Cancel ==
  /\ calls < MaxCalls
  /\ calls' = calls + 1
  /\ \E u \in Users, when \in CancelTexts, loadOk \in BOOLEAN, outcome \in SaveOutcomes :
       cancel_trial(u, when, loadOk, outcome)
  /\ UNCHANGED <<zone, host, now, mem>>

----------------------------------------------------------------------------
(* Overlapping tool executions: each await is a point where another execution
   runs. An execution loads the ledger (Start), keeps the list in a local
   variable, and later appends or saves from it (Finish). *)

\* the clock of the overlapping executions
RaceNows == {
  DateUTC(2025, 10, 4, 9, 0, 0),     \* Omsk Sat 15:00
  DateUTC(2025, 10, 4, 17, 10, 0) }  \* Omsk Sat 23:10, late night

RaceTexts == {T_zavtra, T_0510}

\* the phone the overlapping calls give: another one than the seed booking's
RacePhones == {<<56, 57, 48, 48, 49, 49, 49, 50, 50, 52, 52>>}

\* the ledger after book_trial(1, "8 900 111-22-33", "05.10.2025") on 2025-10-03
SeedLedger == <<
  [userId |-> 1, phone |-> <<56, 32, 57, 48, 48, 32, 49, 49, 49, 45, 50, 50, 45, 51, 51>>,
   phoneNormalized |-> normalizePhone(<<56, 32, 57, 48, 48, 32, 49, 49, 49, 45, 50, 50, 45, 51, 51>>),
   when |-> PlainOf([year |-> 2025, month |-> 10, day |-> 5, hour |-> 12, minute |-> 0, second |-> 0]),
   createdAt |-> DateUTC(2025, 10, 3, 9, 0, 0), updatedAt |-> 0, status |-> "", canceledAt |-> 0] >>

InitRace ==
  /\ zone = Omsk
  /\ host \in HostOffsets
  /\ now \in RaceNows
  /\ sheet = SeedLedger
  /\ file = <<>>
  /\ last = Idle
  /\ calls = 0
  /\ mem = [p \in Procs |-> NoExecution]

\* a list read again from the sheet at the time of the write: C12 tells it from
\* the list the execution holds
FreshList(p) == sheet

\* the list an execution holds across its awaits: `existing` of book_trial
\* (index.js:647), `list` of reschedule_trial (691) and cancel_trial (752)
MemList(p) == mem[p].list

\* the execution has loaded the ledger and waits
Loaded(p, tool, u, phone, text, list) ==
  /\ mem' = [mem EXCEPT ![p] = [pc |-> "loaded", tool |-> tool, user |-> u, phone |-> phone,
                                 text |-> text, list |-> list, answer |-> ""]]
  /\ UNCHANGED <<sheet, file, last>>

\* an execution begins and runs up to the end of its loadBookings; a book_trial
\* that asks for clarification ends before it loads
Start(p) ==
  /\ mem[p].pc \in {"idle", "done"}
  /\ calls < MaxCalls
  /\ calls' = calls + 1
  /\ \E tool \in {"book_trial", "reschedule_trial", "cancel_trial"}, u \in Users,
        phone \in RacePhones, text \in RaceTexts, loadOk \in BOOLEAN :
       IF tool = "book_trial" /\ NeedsClarification(text, now, zone)
       THEN /\ book_trial(u, phone, text, loadOk, TRUE)
            /\ mem' = [mem EXCEPT ![p] = [pc |-> "done", tool |-> tool, user |-> u,
                                           phone |-> phone, text |-> text, list |-> <<>>,
                                           answer |-> "clarify"]]
       ELSE Loaded(p, tool, u, phone, text, loadBookings(loadOk))
  /\ UNCHANGED <<zone, host, now>>

\* the rest of the execution, from the list it holds
FinishWith(e, list, appendOk, outcome) ==
  CASE e.tool = "book_trial"       -> BookList(e.user, e.phone, e.text, list, appendOk)
    [] e.tool = "reschedule_trial" -> RescheduleList(e.user, e.text, list, outcome)
    [] e.tool = "cancel_trial"     -> CancelList(e.user, e.text, list, outcome)

Finish(p) ==
  /\ mem[p].pc = "loaded"
  /\ \E appendOk \in BOOLEAN, outcome \in SaveOutcomes :
       FinishWith(mem[p], MemList(p), appendOk, outcome)
  /\ mem' = [mem EXCEPT ![p].pc = "done", ![p].answer = last'.answer]
  /\ UNCHANGED <<zone, host, now, calls>>

----------------------------------------------------------------------------
(* Specifications *)

\* the booking tools called one after the other
Next == Tick \/ Book \/ Reschedule \/ Cancel

Spec == InitTools /\ [][Next]_vars

\* the resolver and the projector called on their own
NextResolve == Resolve \/ RoundTrip

SpecResolve == Init /\ [][NextResolve]_vars

\* two tool executions that may overlap, on a ledger that holds one booking
NextRace == \E p \in Procs : Start(p) \/ Finish(p)

SpecRace == InitRace /\ [][NextRace]_vars

----------------------------------------------------------------------------
(* Properties of the resolver and the projector, under SpecResolve *)

\* the latest step was a call of normalizeWhenLocalPair
Resolved == last.tool = "resolve"

\* the latest step projected an instant and converted the projection back
RoundTripped == last.tool = "roundtrip"

\* the instant the pair's ISO string denotes, if it is one
InstantOf(pair) == DateParse(pair.utcISO, host)

\* day of the week (0 is Sunday) of the instant t on the zone's calendar
ZoneWeekDay(t, timeZone) == WeekDay(t + TzOffsetAt(t, timeZone) * 60)

\* seconds since local midnight of the instant t in the zone
ZoneSecondOfDay(t, timeZone) == (t + TzOffsetAt(t, timeZone) * 60) % 86400

\* the zone's calendar date of the instant t, moved by k civil days
ZoneDatePlus(t, timeZone, k) ==
  CivilFromDays(((t + TzOffsetAt(t, timeZone) * 60) \div 86400) + k)

\* the canonical local string of a date and a clock time
PlainAt(date, clock) ==
  PlainOf([year |-> date.year, month |-> date.month, day |-> date.day,
           hour |-> clock.h, minute |-> clock.m, second |-> 0])

\* the index (0 is Sunday) of the weekday W of the text "в " + W
NamedWeekday(text) == (CHOOSE i \in 1..7 : InWeekday(i) = text) % 7

\* the clock time a reader finds in each text ("в H", "в H:MM", "H:MM", clamped), 12:00 when none
StatedClock(text) ==
  CASE text = T_zavtra_v9                     -> [h |-> 9, m |-> 0]
    [] text \in {T_zavtra_v930, T_zavtra_930} -> [h |-> 9, m |-> 30]
    [] text = T_zavtra_2570                   -> [h |-> 23, m |-> 59]
    [] text = T_zavtra_030                    -> [h |-> 0, m |-> 30]
    [] text = T_date_v1830                    -> [h |-> 18, m |-> 30]
    [] text = T_date_v18                      -> [h |-> 18, m |-> 0]
    [] text = T_date_705                      -> [h |-> 7, m |-> 5]
    [] OTHER                                  -> [h |-> 12, m |-> 0]

\* the texts with a relative word and no calendar date, and the days each adds
RelativeTexts == {T_segodnya, T_zavtra, T_poslezavtra, T_zavtra_v9, T_zavtra_v930,
                  T_zavtra_930, T_zavtra_2570, T_zavtra_030}

DaysAhead(text) ==
  IF text = T_poslezavtra THEN 2 ELSE IF text = T_segodnya THEN 0 ELSE 1

\* the texts with a full numeric date D.M.YYYY, and the date each states
FullDateTexts == {T_date_v1830, T_date, T_date_v18, T_date_705, T_0510}

StatedDate(text) ==
  CASE text = T_date_705 -> [year |-> 2026, month |-> 1, day |-> 5]
    [] text = T_0510     -> [year |-> 2025, month |-> 10, day |-> 5]
    [] OTHER             -> [year |-> 2025, month |-> 12, day |-> 25]

\* d is a date on the weekday the text names, after nowInstant
IsNamedWeekdayAfter(d, text, nowInstant, timeZone) ==
  /\ d.valid
  /\ d.t > nowInstant
  /\ ZoneWeekDay(d.t, timeZone) = NamedWeekday(text)

\* C1: for every weekday name W and every now, resolving "в " + W yields a date
\* whose weekday in the configured zone is W and whose instant is strictly after now.
C1_WeekdayTextGivesThatWeekday ==
  (Resolved /\ last.text \in InWeekdayTexts)
    => IsNamedWeekdayAfter(InstantOf(last.pair), last.text, last.at, zone)

\* C2: when the text names the weekday now falls on in the zone, the resolved date
\* is today's local date while the target time (12:00 by default) is still
\* strictly after now, and today's local date plus exactly 7 days otherwise.
C2_TodaysWeekdayRollsAWeek ==
  (Resolved /\ last.text = T_pyatnitsa /\ ZoneWeekDay(last.at, zone) = 5)
    => last.pair.localPlain =
         PlainAt(ZoneDatePlus(last.at, zone,
                              IF ZoneSecondOfDay(last.at, zone) < 12 * 3600 THEN 0 ELSE 7),
                 StatedClock(last.text))

\* C3: a text with сегодня, завтра or послезавтра resolves to the zone's date of
\* now plus 0, 1 or 2 civil days, at the clock time the text gives as "в H",
\* "в H:MM" or "H:MM" (clamped), or at 12:00:00 when it gives none.
C3_RelativeDayAndClock ==
  (Resolved /\ last.text \in RelativeTexts)
    => last.pair.localPlain =
         PlainAt(ZoneDatePlus(last.at, zone, DaysAhead(last.text)), StatedClock(last.text))

\* the instant with its seconds dropped
WholeMinute(t) == t - (t % 60)

\* t is within the zone's largest offset of one of its DST transitions
NearTransition(t, timeZone) ==
  /\ timeZone.std # timeZone.dst
  /\ \/ Abs(t - timeZone.dstFrom) < Max(timeZone.std, timeZone.dst) * 60
     \/ Abs(t - timeZone.dstTo) < Max(timeZone.std, timeZone.dst) * 60

\* C8 (as the code has it): away from a DST transition, getTzParts followed by
\* zonedDateTimeToUTCISO, which takes no seconds, returns the instant cut to the
\* whole minute.
C8_RoundTripToTheMinute ==
  (RoundTripped /\ ~NearTransition(last.instant, zone))
    => last.back = WholeMinute(last.instant)

\* an instant with seconds, in the zone that has DST, came back cut to its minute
C8_Witness ==
  /\ RoundTripped
  /\ zone = Berlin
  /\ ~NearTransition(last.instant, zone)
  /\ last.instant % 60 # 0
  /\ last.back = WholeMinute(last.instant)

\* C8 as stated: away from a DST transition the round trip returns the same instant.
C8_RoundTripExact ==
  (RoundTripped /\ ~NearTransition(last.instant, zone))
    => last.back = last.instant

\* C9: a text with a full numeric date D.M.YYYY resolves, whatever now is, to that
\* year, month and day at the clock time found in the rest of the text, or 12:00:00.
C9_FullDateIgnoresNow ==
  (Resolved /\ last.text \in FullDateTexts)
    => last.pair.localPlain = PlainAt(StatedDate(last.text), StatedClock(last.text))

\* s is t without the white space at its two ends
IsTrimOf(s, t) ==
  \E i \in 1..(Len(t) + 1), j \in 0..Len(t) :
    /\ s = SubSeq(t, i, j)
    /\ \A k \in 1..(i - 1) : IsSpace(t[k])
    /\ \A k \in (j + 1)..Len(t) : IsSpace(t[k])
    /\ s # <<>> => (~IsSpace(s[1]) /\ ~IsSpace(s[Len(s)]))

\* C10 (as the code has it): when no rule matches and the text is no timestamp,
\* both strings of the pair are the input without the white space at its ends,
\* its letters as typed.
C10_NoRuleReturnsTrimmedText ==
  (Resolved /\ last.pair.rule = "none")
    => /\ IsTrimOf(last.pair.utcISO, last.text)
       /\ last.pair.localPlain = last.pair.utcISO

\* " Потом " matched no rule and came back as "Потом"
C10_Witness ==
  /\ Resolved
  /\ last.pair.rule = "none"
  /\ last.text = T_Potom_sp
  /\ last.pair.localPlain # last.text
  /\ IsTrimOf(last.pair.localPlain, last.text)

\* C10 as stated: when no rule matches, both strings are the original text unchanged.
C10_NoRuleReturnsTextUnchanged ==
  (Resolved /\ last.pair.rule = "none")
    => /\ last.pair.utcISO = last.text
       /\ last.pair.localPlain = last.text

----------------------------------------------------------------------------
(* Properties of the booking tools, under Spec *)

\* the local hour of the instant is in 22..23 or 0..3
LateHour(t, timeZone) == getTzParts(t, timeZone).hour \in {22, 23, 0, 1, 2, 3}

\* the text holds a relative word or a weekday form the resolver's definitions accept
SaysRelativeOrWeekday(text) ==
  \/ \E w \in RelativeWords : Contains(toLowerCase(text), w)
  \/ \E i \in 1..Len(weekdayDefs) : \E suf \in weekdayDefs[i].suf1 :
       Contains(toLowerCase(text), weekdayDefs[i].stem \o suf)

\* C4: a booking or reschedule call asks for clarification if and only if the
\* local hour is in 22..23 or 0..3, the text is a weekday or relative-day
\* expression (declined weekday forms included), and it holds no explicit
\* calendar date. A reschedule that finds no booking to move is left aside.
C4_ClarifyIffLateRelativeNoDate ==
  (last.tool \in {"book_trial", "reschedule_trial"} /\ last.answer # "not_found")
    => ((last.answer = "clarify")
          <=> /\ LateHour(last.at, zone)
              /\ SaysRelativeOrWeekday(last.text)
              /\ ~hasExplicitCalendarDate(last.text))

\* s reads DD.MM.YYYY
IsDDMMYYYY(s) ==
  /\ Len(s) = 10
  /\ DigitsAt(s, 1, 2) /\ s[3] = 46
  /\ DigitsAt(s, 4, 2) /\ s[6] = 46
  /\ DigitsAt(s, 7, 4)

\* C5: a call of book_trial or reschedule_trial that answers with the
\* clarification prompt leaves both stores as they were, issues no save, and its
\* prompt holds the resolved candidate date as DD.MM.YYYY.
C5_ClarifyKeepsLedgerAndNamesDate ==
  [][(calls' = calls + 1 /\ last'.answer = "clarify")
       => /\ sheet' = sheet
          /\ file' = file
          /\ ~last'.saved
          /\ IsDDMMYYYY(last'.prompt)]_vars

\* the records of a store that are the user's and not canceled
ActiveOf(list, u) == {i \in 1..Len(list) : list[i].userId = u /\ IsActive(list[i])}

\* C6: after any sequence of book_trial, reschedule_trial and cancel_trial calls,
\* each run to completion, a store holds at most one booking that is not
\* canceled for each userId.
C6_OneActiveBookingPerUser ==
  \A u \in Users :
    /\ Cardinality(ActiveOf(sheet, u)) <= 1
    /\ Cardinality(ActiveOf(file, u)) <= 1

\* C7: a booking created with when = "пятница" and a cancel_trial by the same user
\* with the same text less than a day later (the clock reads that Saturday or
\* the Sunday after it, so the same week and before the Friday): when the call finds the user's
\* booking, the text resolves to the stored string and the booking is canceled.
C7_SameTextCancels ==
  [][(/\ last.tool = "book_trial" /\ last.answer = "created" /\ last.text = T_pyatnitsa
      /\ last'.tool = "cancel_trial" /\ last'.user = last.user
      /\ last'.text = T_pyatnitsa
      /\ calls' = calls + 1
      /\ last'.at - last.at < 86400
      /\ last'.answer # "no_active")
       => /\ last'.pair.localPlain = last.pair.localPlain
          /\ last'.answer = "canceled"]_vars

\* the paths of book_trial: clarification before any ledger access; a duplicate
\* found after the load; or load, resolve, persist, acknowledge
BookPath(c) ==
  \/ c.answer = "clarify" /\ ~c.loaded /\ ~c.saved
  \/ c.answer = "already" /\ c.loaded /\ ~c.saved
  \/ c.answer = "created" /\ c.loaded /\ c.saved

\* the paths of reschedule_trial, which loads the ledger first: nothing to move;
\* clarification; or resolve, persist, acknowledge
ReschedulePath(c) ==
  \/ c.answer = "not_found" /\ c.loaded /\ ~c.saved
  \/ c.answer = "clarify" /\ c.loaded /\ ~c.saved
  \/ c.answer = "rescheduled" /\ c.loaded /\ c.saved

\* C11 (as the code has it): book_trial ends in clarification (before any ledger
\* access), in the duplicate refusal, or in resolved-persisted-acknowledged;
\* reschedule_trial reads the ledger first and ends in not-found, clarification
\* or resolved-persisted-acknowledged; a path that does not persist leaves both
\* stores as they were.
C11_ToolPaths ==
  [][(calls' = calls + 1 /\ last'.tool \in {"book_trial", "reschedule_trial"})
       => /\ last'.tool = "book_trial" => BookPath(last')
          /\ last'.tool = "reschedule_trial" => ReschedulePath(last')
          /\ ~last'.saved => (sheet' = sheet /\ file' = file)]_vars

\* a reschedule_trial that read the ledger and then asked for clarification
C11_Witness ==
  /\ last.tool = "reschedule_trial"
  /\ last.answer = "clarify"
  /\ last.loaded
  /\ ~last.saved

\* C11 as stated: a booking action tool ends either in clarification, with no
\* ledger access before the ambiguity check, or in resolved-persisted-acknowledged.
C11_TwoPathsOnly ==
  last.tool \in {"book_trial", "reschedule_trial"}
    => \/ last.answer = "clarify" /\ ~last.loaded /\ ~last.saved
       \/ last.answer \in {"created", "rescheduled"} /\ last.saved

\* d is a date that falls on weekday idx (0 is Sunday) of the zone's calendar
FallsOnWeekday(d, idx, timeZone) == d.valid /\ ZoneWeekDay(d.t, timeZone) = idx

\* C13: the rules apply in priority order and the first match decides: a weekday
\* name wins over a relative word ("пятница завтра" is a Friday), a relative word
\* wins over a numeric date ("завтра 05.10.2025" is now + 1 day), and послезавтра
\* is tested before завтра (now + 2 days, never now + 1).
C13_PriorityOrder ==
  Resolved =>
    /\ last.text = T_pyatnitsa_zavtra => FallsOnWeekday(InstantOf(last.pair), 5, zone)
    /\ last.text = T_zavtra_0510
         => last.pair.localPlain = PlainAt(ZoneDatePlus(last.at, zone, 1), StatedClock(last.text))
    /\ last.text = T_poslezavtra
         => last.pair.localPlain = PlainAt(ZoneDatePlus(last.at, zone, 2), StatedClock(last.text))

\* plain is the zone's civil time of the date d
IsProjectionOf(plain, d, timeZone) == d.valid /\ plain = PlainOf(getTzParts(d.t, timeZone))

\* C15: whenever a rule matches, the canonical local string is a real calendar
\* date-time and is the zone-local projection of the instant returned with it,
\* for every input, numeric dates such as 31.02 or 45.13 included.
C15_LocalStringIsProjection ==
  (Resolved /\ last.pair.rule # "none")
    => IsProjectionOf(last.pair.localPlain, InstantOf(last.pair), zone)

\* C17: after book_trial acknowledged a booking of a user, the next load returns
\* the record whichever backend took the write and whichever serves the read, so
\* a book_trial of the same user that comes next does not create a second booking.
C17_SecondBookingRefused ==
  [][(/\ last.tool = "book_trial" /\ last.answer = "created"
      /\ calls' = calls + 1
      /\ last'.tool = "book_trial" /\ last'.user = last.user)
       => last'.answer # "created"]_vars

\* the records of the user in a store that were canceled at the instant t
CanceledAt(list, u, t) ==
  {i \in 1..Len(list) : /\ list[i].userId = u
                        /\ list[i].status = "canceled"
                        /\ list[i].canceledAt = t}

\* the stored moment, read as local time of the configured zone, is after t
ZoneMomentAfter(when, t) ==
  /\ parseLocalPlainToDate(when, zone, host).valid
  /\ parseLocalPlainToDate(when, zone, host).t > t

\* C16: cancel_trial cancels a booking only when its scheduled moment, read as
\* local time of the configured zone, is strictly later than the current
\* instant, and a refusal for a moment that has passed leaves the ledger unchanged.
C16_CancelOnlyFutureBookings ==
  [][(calls' = calls + 1 /\ last'.tool = "cancel_trial")
       => /\ last'.answer = "canceled"
               => \E list \in {sheet', file'} :
                    \E i \in CanceledAt(list, last'.user, now) :
                      ZoneMomentAfter(list[i].when, now)
          /\ last'.answer = "past" => (sheet' = sheet /\ file' = file)]_vars

\* the stored when of the booking is the resolved string
SameString(b, plain) == b.when = plain

\* the instants of the booking and of the resolved string are under 5 minutes apart
UnderFiveMinutes(b, plain) ==
  /\ parseLocalPlainToDate(b.when, zone, host).valid
  /\ parseLocalPlainToDate(plain, zone, host).valid
  /\ Abs(parseLocalPlainToDate(b.when, zone, host).t
         - parseLocalPlainToDate(plain, zone, host).t) < 300

\* booking i of list may be the one selected for the resolved string: it has
\* that string, or no candidate has and it is under 5 minutes away
MaySelect(list, cands, i, plain) ==
  \/ SameString(list[i], plain)
  \/ /\ \A j \in cands : ~SameString(list[j], plain)
     /\ UnderFiveMinutes(list[i], plain)

\* what a cancel_trial that read list answered (c) and wrote (the primed stores)
CancelOutcome(list, cands, c) ==
  \/ /\ cands = {}
     /\ c.answer = "no_active"
     /\ sheet' = sheet /\ file' = file
  \/ /\ cands # {}
     /\ \A i \in cands : ~SameString(list[i], c.pair.localPlain)
                         /\ ~UnderFiveMinutes(list[i], c.pair.localPlain)
     /\ c.answer = "no_match"
     /\ sheet' = sheet /\ file' = file
  \/ \E i \in cands :
       /\ MaySelect(list, cands, i, c.pair.localPlain)
       /\ \/ c.answer = "past" /\ sheet' = sheet /\ file' = file
          \/ /\ c.answer = "canceled"
             /\ [list EXCEPT ![i].status = "canceled", ![i].canceledAt = now] \in {sheet', file'}

\* C14: cancel_trial selects, among the caller's bookings that are not canceled
\* in the list it read, one whose when is the resolved string, or failing that
\* one under 5 minutes from the resolved instant, and only such a booking is
\* canceled; when none qualifies it reports no match and writes nothing.
C14_CancelSelectsMatching ==
  [][(calls' = calls + 1 /\ last'.tool = "cancel_trial")
       => \E list \in {sheet, file} :
            CancelOutcome(list, Candidates(list, last'.user), last')]_vars

\* a booking for noon was canceled by a text naming 12:03 of that day
C14_Witness ==
  /\ last.tool = "cancel_trial"
  /\ last.text = T_0510_1203
  /\ last.answer = "canceled"
  /\ \E list \in {sheet, file} : \E i \in 1..Len(list) :
       /\ list[i].userId = last.user
       /\ list[i].status = "canceled"
       /\ list[i].when # last.pair.localPlain


\* the list holds a booking of this user or this phone that is not canceled
HoldsActiveFor(list, u, phone) ==
  \E i \in 1..Len(list) :
    /\ list[i].status # "canceled"
    /\ \/ list[i].userId = u
       \/ /\ normalizePhone(phone) # <<>>
          /\ list[i].phoneNormalized = normalizePhone(phone)

\* W is the list with nothing but records of user u altered
RewriteOf(W, list, u) ==
  /\ Len(W) = Len(list)
  /\ \A i \in 1..Len(list) : W[i] = list[i] \/ (W[i].userId = u /\ list[i].userId = u)

\* the execution p ends in this step
Ends(p) == mem[p].pc = "loaded" /\ mem'[p].pc = "done"

\* C12: the tools follow load-mutate-save with no lock and no re-read: the
\* execution that ends decides the duplicate check of book_trial on the list it
\* loaded, and reschedule_trial and cancel_trial write back that list with only
\* the caller's record altered, whatever another execution has stored since;
\* so a later writer's list replaces an earlier writer's change, and two
\* overlapping book_trial executions of one user both pass the duplicate check
C12_LoadMutateSave ==
  [][\A p \in Procs :
       Ends(p) =>
         /\ mem[p].tool = "book_trial" =>
              (last'.answer = "already" <=> HoldsActiveFor(mem[p].list, mem[p].user, mem[p].phone))
         /\ (mem[p].tool # "book_trial" /\ last'.saved) =>
              \E W \in {sheet', file'} : RewriteOf(W, mem[p].list, mem[p].user)]_vars

\* a lost update: a cancellation and a reschedule of user 1 both loaded the seed
\* ledger, both reported success, and the sheet holds the moved booking, active
C12_Witness ==
  \E p, q \in Procs :
    /\ p # q
    /\ mem[p].pc = "done" /\ mem[p].tool = "cancel_trial" /\ mem[p].answer = "canceled"
    /\ mem[q].pc = "done" /\ mem[q].tool = "reschedule_trial" /\ mem[q].answer = "rescheduled"
    /\ mem[p].list = SeedLedger /\ mem[q].list = SeedLedger
    /\ Len(sheet) = 1 /\ sheet[1].status # "canceled" /\ sheet[1].updatedAt # 0

\* two overlapping book_trial executions of user 2 both created a booking
C12_BothBooked ==
  /\ \A p \in Procs : /\ mem[p].pc = "done" /\ mem[p].tool = "book_trial"
                       /\ mem[p].user = 2 /\ mem[p].answer = "created"
  /\ Cardinality({i \in 1..Len(sheet) : sheet[i].userId = 2 /\ sheet[i].status # "canceled"}) = 2

====
